---- MODULE Spec2Model ----
(***************************************************************************)
(* WhisperFlow settings store (src/src/utils/settings.py).                 *)
(*                                                                         *)
(* UserSettings.from_dict / to_dict are modelled as operators on Python    *)
(* values; SettingsManager is modelled as a state machine whose steps are  *)
(* the points at which the interpreter can switch threads: a block run     *)
(* under self._lock is one step per file-system effect, the unlocked       *)
(* _schedule_save and the notification loop are one step per read or write *)
(* of self._save_timer / self._callbacks.                                  *)
(***************************************************************************)
EXTENDS Integers, Sequences, FiniteSets, TLC

(***************************************************************************)
(* Bounds of the model.                                                    *)
(***************************************************************************)
MaxCalls == 3
MaxTimers == 2
MaxCallbacks == 3
MaxCbCalls == 5

(***************************************************************************)
(* Python values.  A string is a sequence of one-character strings so that *)
(* slicing and int() are computed, not assumed.                            *)
(***************************************************************************)
VStr(s) == [t |-> "str", s |-> s, n |-> 0]
VInt(n) == [t |-> "int", s |-> <<>>, n |-> n]
VBool(b) == [t |-> "bool", s |-> <<>>, n |-> IF b THEN 1 ELSE 0]
VNone == [t |-> "none", s |-> <<>>, n |-> 0]
\* a bound method of the record
VMethod == [t |-> "method", s |-> <<>>, n |-> 0]

Rep(c, n) == [i \in 1..n |-> c]
Slice(s, n) == SubSeq(s, 1, IF Len(s) < n THEN Len(s) ELSE n)

DigitChars == <<"0", "1", "2", "3", "4", "5", "6", "7", "8", "9">>
IsDigit(c) == \E i \in 1..10 : DigitChars[i] = c
DigitVal(c) == (CHOOSE i \in 1..10 : DigitChars[i] = c) - 1

RECURSIVE NatToStr(_)
NatToStr(n) ==
    IF n < 10 THEN <<DigitChars[n + 1]>>
    ELSE NatToStr(n \div 10) \o <<DigitChars[(n % 10) + 1]>>

RECURSIVE StrToNat(_)
StrToNat(s) ==
    IF Len(s) = 0 THEN 0
    ELSE 10 * StrToNat(SubSeq(s, 1, Len(s) - 1)) + DigitVal(s[Len(s)])

\* str(x)
PyStr(v) ==
    CASE v.t = "str" -> v.s
      [] v.t = "int" -> IF v.n < 0 THEN <<"-">> \o NatToStr(0 - v.n) ELSE NatToStr(v.n)
      [] v.t = "bool" -> IF v.n = 1 THEN <<"T", "r", "u", "e">>
                         ELSE <<"F", "a", "l", "s", "e">>
      [] OTHER -> <<"N", "o", "n", "e">>

\* bool(x)
PyBool(v) ==
    CASE v.t = "str" -> Len(v.s) > 0
      [] v.t = "int" -> v.n # 0
      [] v.t = "bool" -> v.n = 1
      [] OTHER -> FALSE

\* The digits of a decimal literal accepted by int(str), after the sign.
IntBody(s) == IF Len(s) > 0 /\ s[1] \in {"-", "+"} THEN Tail(s) ELSE s
IsIntLiteral(s) ==
    /\ Len(IntBody(s)) > 0
    /\ \A i \in 1..Len(IntBody(s)) : IsDigit(IntBody(s)[i])

\* int(x) raises ValueError on a non-numeric string and TypeError on None
IntRaises(v) ==
    CASE v.t = "str" -> ~IsIntLiteral(v.s)
      [] v.t = "none" -> TRUE
      [] OTHER -> FALSE

PyInt(v) ==
    CASE v.t = "str" -> IF v.s[1] = "-" THEN 0 - StrToNat(IntBody(v.s))
                        ELSE StrToNat(IntBody(v.s))
      [] OTHER -> v.n

(***************************************************************************)
(* src.config (OutputMode, WindowMode): string-valued enumerations.  A     *)
(* member is represented by its string value.                              *)
(***************************************************************************)
S_type == <<"t", "y", "p", "e">>
S_clipboard == <<"c", "l", "i", "p", "b", "o", "a", "r", "d">>
S_floating == <<"f", "l", "o", "a", "t", "i", "n", "g">>
S_normal == <<"n", "o", "r", "m", "a", "l">>
S_none == <<"n", "o", "n", "e">>
S_basic == <<"b", "a", "s", "i", "c">>
S_smart == <<"s", "m", "a", "r", "t">>
S_f2 == <<"f", "2">>
S_fr == <<"f", "r">>

OutputModeValues == {S_type, S_clipboard}
WindowModeValues == {S_floating, S_normal}
LevelValues == {S_none, S_basic, S_smart}

\* OutputMode(x) / WindowMode(x): ValueError unless x is the value of a member
EnumRaises(values, v) == ~(v.t = "str" /\ v.s \in values)

(***************************************************************************)
(* UserSettings                                                            *)
(***************************************************************************)
FieldNames ==
    {"push_to_talk_key", "output_mode", "language", "smart_formatting_enabled",
     "smart_formatting_level", "window_mode", "window_position_x", "window_position_y"}

\* UserSettings(): the dataclass defaults
Defaults ==
    [push_to_talk_key |-> VStr(S_f2),
     output_mode |-> VStr(S_type),
     language |-> VStr(S_fr),
     smart_formatting_enabled |-> VBool(TRUE),
     smart_formatting_level |-> VStr(S_basic),
     window_mode |-> VStr(S_floating),
     window_position_x |-> VInt(0 - 1),
     window_position_y |-> VInt(0 - 1)]

\* the attributes every UserSettings instance has from its class besides the fields
ClassAttrs == {"to_dict", "from_dict"}

\* dict.get(key, default)
DictGet(data, key, default) == IF key \in DOMAIN data THEN data[key] ELSE default

PttLimit == 50
LanguageLimit == 10
LevelLimit == 10
WindowModeLimit == 20

\* a from_dict that keeps the whole key
FromDictPttUncut(data) == VStr(PyStr(DictGet(data, "push_to_talk_key", VStr(S_f2))))

FromDictPtt(data) == VStr(Slice(PyStr(DictGet(data, "push_to_talk_key", VStr(S_f2))), PttLimit))

FromDictOutputMode(data) ==
    LET raw == DictGet(data, "output_mode", VStr(S_type))
    IN IF EnumRaises(OutputModeValues, raw) THEN VStr(S_type) ELSE raw

FromDictLanguage(data) == VStr(Slice(PyStr(DictGet(data, "language", VStr(S_fr))), LanguageLimit))

FromDictEnabled(data) == VBool(PyBool(DictGet(data, "smart_formatting_enabled", VBool(TRUE))))

FromDictLevel(data) ==
    LET lvl == Slice(PyStr(DictGet(data, "smart_formatting_level", VStr(S_basic))), LevelLimit)
    IN IF lvl \notin LevelValues THEN VStr(S_basic) ELSE VStr(lvl)

FromDictWindowMode(data) ==
    LET wm == VStr(Slice(PyStr(DictGet(data, "window_mode", VStr(S_floating))), WindowModeLimit))
    IN IF EnumRaises(WindowModeValues, wm) THEN VStr(S_floating) ELSE wm

\* int(data.get("window_position_x", -1)) is not guarded: it raises out of from_dict
FromDictRaises(data) ==
    \/ IntRaises(DictGet(data, "window_position_x", VInt(0 - 1)))
    \/ IntRaises(DictGet(data, "window_position_y", VInt(0 - 1)))

FromDictPos(data, key) == VInt(PyInt(DictGet(data, key, VInt(0 - 1))))

\* UserSettings.from_dict(data), when it returns (~FromDictRaises(data))
FromDict(data) ==
    [push_to_talk_key |-> FromDictPtt(data),
     output_mode |-> FromDictOutputMode(data),
     language |-> FromDictLanguage(data),
     smart_formatting_enabled |-> FromDictEnabled(data),
     smart_formatting_level |-> FromDictLevel(data),
     window_mode |-> FromDictWindowMode(data),
     window_position_x |-> FromDictPos(data, "window_position_x"),
     window_position_y |-> FromDictPos(data, "window_position_y")]

\* UserSettings.to_dict(): asdict(self)
ToDict(rec) == [k \in FieldNames |-> rec[k]]

(***************************************************************************)
(* Files.  A file is absent, a complete JSON object ("dict"), a complete   *)
(* JSON value of another shape ("other"), or bytes that are not JSON       *)
(* ("garbage"); complete = FALSE marks a file whose writer has not         *)
(* finished.                                                               *)
(***************************************************************************)
EmptyDict == [k \in {} |-> VNone]
Absent == [kind |-> "absent", size |-> 0, data |-> EmptyDict, complete |-> TRUE]

\* SettingsManager.MAX_CONFIG_SIZE
MAX_CONFIG_SIZE == 10240

\* len(name) of the eight field names
KeyLen ==
    [push_to_talk_key |-> 16, output_mode |-> 11, language |-> 8,
     smart_formatting_enabled |-> 24, smart_formatting_level |-> 22,
     window_mode |-> 11, window_position_x |-> 17, window_position_y |-> 17]

\* len(json.dumps(v)) for a value without escapes
JsonLen(v) ==
    CASE v.t = "str" -> Len(v.s) + 2
      [] v.t = "int" -> Len(PyStr(v))
      [] v.t = "bool" -> IF v.n = 1 THEN 4 ELSE 5
      [] OTHER -> 4

RECURSIVE SumOver(_, _)
SumOver(keys, data) ==
    IF keys = {} THEN 0
    ELSE LET k == CHOOSE x \in keys : TRUE
         IN (KeyLen[k] + JsonLen(data[k]) + 8) + SumOver(keys \ {k}, data)

\* bytes written by json.dump(d, f, indent=2, ensure_ascii=False) for the eight fields:
\* "{\n", then per item two spaces, the quoted key, ": ", the value and ",\n" (or "\n}")
JsonSize(data) == 2 + SumOver(DOMAIN data, data)

\* the document json.dump writes for a record
Serialize(rec) ==
    [kind |-> "dict", size |-> JsonSize(ToDict(rec)), data |-> ToDict(rec), complete |-> TRUE]

\* temp_file.open("w"): the file exists and is empty
Opened == [kind |-> "garbage", size |-> 0, data |-> EmptyDict, complete |-> FALSE]

\* a write of the document that stopped part-way
Truncated(doc) == [kind |-> "garbage", size |-> doc.size \div 2, data |-> EmptyDict, complete |-> FALSE]

(***************************************************************************)
(* Inputs                                                                  *)
(***************************************************************************)
S_bogus == <<"b", "o", "g", "u", "s">>
S_en == <<"e", "n">>
S_abc == <<"a", "b", "c">>
S_INVALID == <<"I", "N", "V", "A", "L", "I", "D">>
LongKey == Rep("a", 100)

\* documents found at the settings path when the store is constructed
DocValid ==
    [push_to_talk_key |-> VStr(<<"f", "3">>), output_mode |-> VStr(S_clipboard),
     language |-> VStr(S_en), smart_formatting_enabled |-> VBool(FALSE),
     smart_formatting_level |-> VStr(S_smart), window_mode |-> VStr(S_normal),
     window_position_x |-> VInt(50), window_position_y |-> VStr(<<"7", "5">>)]
DocBadInt == [language |-> VStr(S_en), window_position_x |-> VStr(S_abc)]
DocMessy ==
    [unknown_key |-> VInt(42), output_mode |-> VStr(S_INVALID),
     push_to_talk_key |-> VStr(LongKey), language |-> VStr(Rep("a", 20))]

DocPartial == [language |-> VStr(S_en), window_position_x |-> VInt(50)]

DictFile(data, size) == [kind |-> "dict", size |-> size, data |-> data, complete |-> TRUE]

\* the files of the store whose documents leave fields out, and the arguments of set
\* beside load
LoadFiles == {DictFile(DocPartial, 50), DictFile(DocMessy, 300)}
LoadSetArgs == {<<"output_mode", VStr(S_clipboard), TRUE>>, <<"language", VStr(S_abc), FALSE>>}

InitFiles ==
    {Absent,
     DictFile(DocValid, MAX_CONFIG_SIZE),
     DictFile(DocValid, MAX_CONFIG_SIZE + 1),
     DictFile(DocBadInt, 60),
     DictFile(DocMessy, 300),
     [kind |-> "other", size |-> 9, data |-> EmptyDict, complete |-> TRUE],
     [kind |-> "garbage", size |-> 20, data |-> EmptyDict, complete |-> TRUE]}

\* documents for from_dict: every combination of a choice per field, where Missing
\* leaves the field out of the document
Missing == [t |-> "missing", s |-> <<>>, n |-> 0]
DocOf(p) == [k \in {x \in DOMAIN p : p[x] # Missing} |-> p[k]]
PttChoices ==
    {Missing, VStr(<<"f", "3">>), VStr(Rep("a", 50)), VStr(Rep("a", 51)), VStr(LongKey), VInt(5)}
OutputModeChoices == {Missing, VStr(S_type), VStr(S_clipboard), VStr(S_INVALID), VInt(5)}
LanguageChoices == {Missing, VStr(S_en), VStr(Rep("a", 10)), VStr(Rep("a", 20))}
LevelChoices ==
    {Missing, VStr(S_none), VStr(S_basic), VStr(S_smart), VStr(S_INVALID),
     VStr(S_smart \o Rep("x", 6)), VNone}
WindowModeChoices == {Missing, VStr(S_floating), VStr(S_normal), VStr(S_INVALID)}
ParseDocs ==
    {DocOf([push_to_talk_key |-> a, output_mode |-> b, language |-> c,
            smart_formatting_level |-> d, window_mode |-> e]) :
        a \in PttChoices, b \in OutputModeChoices, c \in LanguageChoices,
        d \in LevelChoices, e \in WindowModeChoices}
ParseFiles == {DictFile(doc, 400) : doc \in ParseDocs}

\* (key, value, save) arguments of set
SetArgs ==
    {<<"output_mode", VStr(S_bogus), TRUE>>,
     <<"output_mode", VStr(S_clipboard), TRUE>>,
     <<"push_to_talk_key", VStr(LongKey), TRUE>>,
     <<"language", VStr(S_en), FALSE>>,
     <<"sound_enabled", VBool(FALSE), TRUE>>,
     <<"to_dict", VBool(TRUE), TRUE>>}

\* the arguments of set when two threads call
ConcSetArgs ==
    {<<"output_mode", VStr(S_bogus), TRUE>>,
     <<"output_mode", VStr(S_clipboard), TRUE>>,
     <<"language", VStr(S_en), FALSE>>}

\* (x, y) arguments of set_window_position, (enabled, level) of set_smart_formatting
PosArgs == {<<VInt(10), VInt(20)>>}
FormattingArgs == {<<VBool(FALSE), VStr(S_smart)>>}

\* the arguments of the accessors, and of set beside them
LanguageArgs == {VStr(S_en)}
WindowModeArgs == {VStr(S_normal), VStr(S_INVALID)}
AccSetArgs == {<<"output_mode", VStr(S_clipboard), FALSE>>}

\* the arguments of set under fair scheduling
LiveSetArgs == {<<"output_mode", VStr(S_clipboard), TRUE>>, <<"language", VStr(S_en), FALSE>>}

\* the arguments of set beside the accessors
PairSetArgs == {<<"language", VStr(S_en), FALSE>>, <<"output_mode", VStr(S_clipboard), TRUE>>}

GetKeys == {"output_mode", "push_to_talk_key", "language", "sound_enabled", "to_dict"}

\* subscribers: cbRaises raises an Exception on every call, cbOk returns
CallbackIds == {"cbRaises", "cbOk"}
CallbackRaises(cb) == cb = "cbRaises"

\* the subscribers and the set call of the runs about the subscriber list
ManyCallbackIds == {"cbRaises", "cbOk", "cbLate"}
CbSetArgs == {<<"language", VStr(S_en), FALSE>>}

(***************************************************************************)
(* Threads: the callers of the store, and one thread per threading.Timer.  *)
(***************************************************************************)
Callers == {1, 2}
Timers == {100 + i : i \in 1..MaxTimers}
Procs == Callers \cup Timers
NoOne == 0

\* load with the size test off by one (>= for >)
LoadOkOffByOne(f) ==
    /\ f.kind # "absent"
    /\ ~(f.size >= MAX_CONFIG_SIZE)
    /\ f.kind = "dict"
    /\ ~FromDictRaises(f.data)

\* a load that rejects a document with a key outside the schema
LoadOkStrict(f) ==
    /\ f.kind # "absent"
    /\ ~(f.size > MAX_CONFIG_SIZE)
    /\ f.kind = "dict"
    /\ DOMAIN f.data \subseteq FieldNames
    /\ ~FromDictRaises(f.data)

\* load() returns True: the file exists, is within the size bound, holds a JSON object,
\* and from_dict does not raise
LoadOk(f) ==
    /\ f.kind # "absent"
    /\ ~(f.size > MAX_CONFIG_SIZE)
    /\ f.kind = "dict"
    /\ ~FromDictRaises(f.data)

\* load that falls back to the defaults when it fails
LoadRecordResets(f, rec) == IF LoadOk(f) THEN FromDict(f.data) ELSE Defaults

\* a load that keeps the previous value of every field the document leaves out
LoadRecordMerges(f, rec) ==
    IF LoadOk(f)
    THEN [k \in FieldNames |-> IF k \in DOMAIN f.data THEN FromDict(f.data)[k] ELSE rec[k]]
    ELSE rec

\* self._settings after load(), with rec the record before the call
LoadRecord(f, rec) == IF LoadOk(f) THEN FromDict(f.data) ELSE rec

(***************************************************************************)
(* State                                                                   *)
(***************************************************************************)
VARIABLES
    settings,    \* self._settings
    file,        \* the file at self._settings_file
    temp,        \* the file at self._settings_file.with_suffix(".tmp")
    lockOwner,   \* the thread holding self._lock, or NoOne
    callbacks,   \* self._callbacks
    saveTimer,   \* self._save_timer: a timer, or NoOne for None
    cancelled,   \* timers whose cancel() has been called
    pc,          \* where each thread is
    call,        \* the arguments and locals of each caller's call in progress
    idx,         \* the position of each caller's iterator over self._callbacks
    log,         \* the callback invocations made so far by each caller's set in progress
    ret,         \* what each thread's last operation returned or raised; for a save that
                 \* failed, whether the temporary file's unlink went through
    calls,       \* number of calls made
    timersMade,  \* number of Timer objects allocated
    crashed,     \* the process has been killed
    lastWrite,   \* history: the last change of the record
    touched,     \* history: the record changed since a timer was last started
    bursts,      \* history: number of bursts of persisting set calls begun
    burstOpen,   \* history: a timer was started and none has expired since
    saveStart,   \* history: the file and record when the save in progress took the lock
    writer,      \* history: for each field, the thread whose set wrote it last (NoOne: load)
    limit        \* the number of calls the callers make in this run

vars ==
    <<settings, file, temp, lockOwner, callbacks, saveTimer, cancelled, pc, call, idx,
      log, ret, calls, timersMade, crashed, lastWrite, touched, bursts, burstOpen, saveStart,
      writer, limit>>

NoNext == [key |-> "", value |-> VNone]
NoCall ==
    [op |-> "none", key |-> "", value |-> VNone, save |-> FALSE, timer |-> NoOne,
     cbs |-> <<>>, next |-> NoNext]
NoRet ==
    [op |-> "none", key |-> "", ok |-> FALSE, raised |-> FALSE, value |-> VNone,
     cleaned |-> FALSE]
NoWriter == [k \in FieldNames |-> NoOne]
NoWrite == [op |-> "none", key |-> "", value |-> VNone]
NoSave == [file |-> Absent, settings |-> Defaults]

Returned(op, ok) == [NoRet EXCEPT !.op = op, !.ok = ok]
Raised(op) == [NoRet EXCEPT !.op = op, !.raised = TRUE]
\* the end of a get or set call, kept with its arguments
Of(r, key, value) == [r EXCEPT !.key = key, !.value = value]

\* SettingsManager.__init__: the defaults, then load()
InitWith(files) ==
    /\ file \in files
    /\ settings = LoadRecord(file, Defaults)
    /\ temp = Absent
    /\ lockOwner = NoOne
    /\ callbacks = <<>>
    /\ saveTimer = NoOne
    /\ cancelled = {}
    /\ pc = [p \in Procs |-> IF p \in Callers THEN "idle" ELSE "unborn"]
    /\ call = [t \in Callers |-> NoCall]
    /\ idx = [t \in Callers |-> 0]
    /\ log = [t \in Callers |-> <<>>]
    /\ ret = [p \in Procs |-> NoRet]
    /\ calls = 0
    /\ timersMade = 0
    /\ crashed = FALSE
    /\ lastWrite = NoWrite
    /\ touched = FALSE
    /\ bursts = 0
    /\ burstOpen = FALSE
    /\ saveStart = NoSave
    /\ writer = NoWriter

Init == InitWith(InitFiles) /\ limit = MaxCalls

CanCall(t) == ~crashed /\ pc[t] = "idle" /\ calls < limit

(***************************************************************************)
(* load and get                                                            *)
(***************************************************************************)
\* SettingsManager.load: with self._lock
LoadCall(t) ==
    /\ CanCall(t)
    /\ lockOwner = NoOne
    /\ lockOwner' = t
    /\ pc' = [pc EXCEPT ![t] = "load_read"]
    /\ ret' = [ret EXCEPT ![t] = NoRet]
    /\ calls' = calls + 1
    /\ UNCHANGED <<settings, writer, file, temp, callbacks, limit, saveTimer, cancelled, call,
                   idx, log, timersMade, crashed, lastWrite, touched, bursts, burstOpen,
                   saveStart>>

\* SettingsManager.load: exists, stat, open, json.load and from_dict, all inside the
\* with block; the lock is released when load returns
Load(t) ==
    /\ ~crashed
    /\ pc[t] = "load_read"
    /\ settings' = LoadRecord(file, settings)
    /\ ret' = [ret EXCEPT ![t] = Returned("load", LoadOk(file))]
    /\ lockOwner' = NoOne
    /\ pc' = [pc EXCEPT ![t] = "idle"]
    /\ lastWrite' = IF LoadOk(file) THEN [NoWrite EXCEPT !.op = "load"] ELSE lastWrite
    /\ touched' = (touched \/ LoadOk(file))
    /\ writer' = IF LoadOk(file) THEN NoWriter ELSE writer
    /\ UNCHANGED <<file, temp, callbacks, limit, saveTimer, cancelled, call, idx, log, calls,
                   timersMade, crashed, bursts, burstOpen, saveStart>>

\* hasattr(self._settings, key): a field (a slot) or an attribute of the class
HasAttr(rec, key) == key \in DOMAIN rec \/ key \in ClassAttrs

\* a getattr that reads the default of the dataclass instead of the instance
GetAttrOfClass(rec, key, default) ==
    IF key \in DOMAIN rec THEN Defaults[key]
    ELSE IF key \in ClassAttrs THEN VMethod
    ELSE default

\* getattr(self._settings, key, default)
GetAttr(rec, key, default) ==
    IF key \in DOMAIN rec THEN rec[key]
    ELSE IF key \in ClassAttrs THEN VMethod
    ELSE default

\* SettingsManager.get, under the lock
Get(t, key, default) ==
    /\ CanCall(t)
    /\ lockOwner = NoOne
    /\ ret' = [ret EXCEPT ![t] = Of(Returned("get", TRUE), key, GetAttr(settings, key, default))]
    /\ calls' = calls + 1
    /\ UNCHANGED <<settings, writer, file, temp, lockOwner, callbacks, limit, saveTimer, cancelled, pc, call,
                   idx, log, timersMade, crashed, lastWrite, touched, bursts, burstOpen,
                   saveStart>>

(***************************************************************************)
(* set, _schedule_save and the notification loop                           *)
(***************************************************************************)
\* setattr(self._settings, key, value) raises AttributeError for a name that is not a
\* slot: the instance has no __dict__ and the attributes of the class are read-only
SetAttrRaises(rec, key) == key \notin DOMAIN rec

\* a set that writes the field into a fresh record instead of the live one
SetAttrOnCopy(rec, key, value) == [Defaults EXCEPT ![key] = value]

\* setattr(self._settings, key, value), when it returns
SetAttr(rec, key, value) == [rec EXCEPT ![key] = value]

\* a set that schedules a save whatever its save argument
AfterSetAttrAlways(save) == "sched_check"

\* set: if save: self._schedule_save(), then the notification loop
AfterSetAttr(save) == IF save THEN "sched_check" ELSE "notify"

\* a set that does not take the lock
SetAcquireUnlocked(t) == TRUE

\* set: with self._lock waits until no other thread owns the lock
SetAcquire(t) == lockOwner = NoOne

\* SettingsManager.set, the block under the lock; next is the set call that the caller
\* of this one makes after it, if any
SetBody(t, key, value, save, next) ==
    /\ SetAcquire(t)
    /\ (save /\ ~SetAttrRaises(settings, key)) => timersMade < MaxTimers
    /\ IF ~HasAttr(settings, key)
       THEN /\ ret' = [ret EXCEPT ![t] = Of(Returned("set", TRUE), key, value)]
            /\ pc' = [pc EXCEPT ![t] = "idle"]
            /\ call' = [call EXCEPT ![t] = NoCall]
            /\ UNCHANGED <<settings, writer, idx, timersMade, lastWrite, touched>>
       ELSE IF SetAttrRaises(settings, key)
       THEN /\ ret' = [ret EXCEPT ![t] = Of(Raised("set"), key, value)]
            /\ pc' = [pc EXCEPT ![t] = "idle"]
            /\ call' = [call EXCEPT ![t] = NoCall]
            /\ UNCHANGED <<settings, writer, idx, timersMade, lastWrite, touched>>
       ELSE /\ settings' = SetAttr(settings, key, value)
            /\ writer' = [writer EXCEPT ![key] = t]
            /\ call' = [call EXCEPT ![t] =
                          [op |-> "set", key |-> key, value |-> value, save |-> save,
                           timer |-> IF save THEN 100 + timersMade + 1 ELSE NoOne,
                           cbs |-> callbacks, next |-> next]]
            /\ idx' = [idx EXCEPT ![t] = 1]
            /\ timersMade' = IF save THEN timersMade + 1 ELSE timersMade
            /\ pc' = [pc EXCEPT ![t] = AfterSetAttr(save)]
            /\ ret' = [ret EXCEPT ![t] = NoRet]
            /\ lastWrite' = [op |-> "set", key |-> key, value |-> value]
            /\ touched' = TRUE
    /\ UNCHANGED <<file, temp, lockOwner, callbacks, limit, saveTimer, cancelled, log, crashed,
                   bursts, burstOpen, saveStart>>

\* SettingsManager.set called by a caller
SetLocked(t, key, value, save) ==
    /\ CanCall(t)
    /\ calls' = calls + 1
    /\ SetBody(t, key, value, save, NoNext)

\* a pair of fields set by one accessor: set(key1, value1, save=False), then
\* set(key2, value2)
SetPair(t, key1, value1, key2, value2) ==
    /\ CanCall(t)
    /\ timersMade < MaxTimers
    /\ calls' = calls + 1
    /\ SetBody(t, key1, value1, FALSE, [key |-> key2, value |-> value2])

\* set_window_position(x, y)
SetWindowPosition(t, x, y) == SetPair(t, "window_position_x", x, "window_position_y", y)

\* set_smart_formatting(enabled, level)
SetSmartFormatting(t, enabled, level) ==
    SetPair(t, "smart_formatting_enabled", enabled, "smart_formatting_level", level)

\* set_sound_enabled(enabled) / get_sound_enabled()
SetSoundEnabled(t, enabled) == SetLocked(t, "sound_enabled", VBool(enabled), TRUE)
GetSoundEnabled(t) == Get(t, "sound_enabled", VBool(TRUE))

\* set_history_enabled(enabled) / get_history_enabled()
SetHistoryEnabled(t, enabled) == SetLocked(t, "history_enabled", VBool(enabled), TRUE)
GetHistoryEnabled(t) == Get(t, "history_enabled", VBool(TRUE))

\* set_language(language) / get_language()
SetLanguage(t, language) == SetLocked(t, "language", language, TRUE)
GetLanguage(t) == Get(t, "language", VStr(S_fr))

\* a set_window_mode that does not validate the mode
SetWindowModeUnchecked(t, mode) == SetLocked(t, "window_mode", mode, TRUE)

\* set_window_mode(mode): WindowMode(mode) raises ValueError for a mode outside the
\* enumeration and the accessor returns; otherwise set("window_mode", mode)
SetWindowMode(t, mode) ==
    IF EnumRaises(WindowModeValues, mode)
    THEN /\ CanCall(t)
         /\ calls' = calls + 1
         /\ ret' = [ret EXCEPT ![t] = Of(Returned("set_window_mode", TRUE), "window_mode", mode)]
         /\ UNCHANGED <<settings, writer, file, temp, lockOwner, callbacks, limit, saveTimer,
                        cancelled, pc, call, idx, log, timersMade, crashed, lastWrite, touched,
                        bursts, burstOpen, saveStart>>
    ELSE SetLocked(t, "window_mode", mode, TRUE)

\* the second set call of the accessor
SetSecond(t) ==
    /\ ~crashed
    /\ pc[t] = "set_second"
    /\ calls' = calls
    /\ SetBody(t, call[t].next.key, call[t].next.value, TRUE, NoNext)

\* _schedule_save: if self._save_timer is not None
SchedCheck(t) ==
    /\ ~crashed
    /\ pc[t] = "sched_check"
    /\ pc' = [pc EXCEPT ![t] = IF saveTimer # NoOne THEN "sched_cancel" ELSE "sched_new"]
    /\ UNCHANGED <<settings, writer, file, temp, lockOwner, callbacks, limit, saveTimer, cancelled, call, idx,
                   log, ret, calls, timersMade, crashed, lastWrite, touched, bursts, burstOpen,
                   saveStart>>

\* a cancel that does nothing
TimerCancelNoop(k) == cancelled

\* Timer.cancel(): sets the timer's finished event
TimerCancel(k) == cancelled \cup {k}

\* _schedule_save: self._save_timer.cancel()
SchedCancel(t) ==
    /\ ~crashed
    /\ pc[t] = "sched_cancel"
    /\ cancelled' = TimerCancel(saveTimer)
    /\ pc' = [pc EXCEPT ![t] = "sched_new"]
    /\ UNCHANGED <<settings, writer, file, temp, lockOwner, callbacks, limit, saveTimer, call, idx,
                   log, ret, calls, timersMade, crashed, lastWrite, touched, bursts, burstOpen,
                   saveStart>>

\* _schedule_save: self._save_timer = threading.Timer(self._save_delay, self.save)
SchedNew(t) ==
    /\ ~crashed
    /\ pc[t] = "sched_new"
    /\ saveTimer' = call[t].timer
    /\ pc' = [pc EXCEPT ![t] = "sched_daemon", ![call[t].timer] = "created"]
    /\ UNCHANGED <<settings, writer, file, temp, lockOwner, callbacks, limit, cancelled, call, idx,
                   log, ret, calls, timersMade, crashed, lastWrite, touched, bursts, burstOpen,
                   saveStart>>

\* Thread.daemon = ... and Thread.start() raise RuntimeError on a thread already started
Started(k) == pc[k] \notin {"unborn", "created"}

\* the exception leaves set: its frame is gone
SetRaises(t) ==
    /\ pc' = [pc EXCEPT ![t] = "idle"]
    /\ ret' = [ret EXCEPT ![t] = Of(Raised("set"), call[t].key, call[t].value)]
    /\ call' = [call EXCEPT ![t] = NoCall]
    /\ idx' = [idx EXCEPT ![t] = 0]
    /\ log' = [log EXCEPT ![t] = <<>>]

\* _schedule_save: self._save_timer.daemon = True
SchedDaemon(t) ==
    /\ ~crashed
    /\ pc[t] = "sched_daemon"
    /\ IF Started(saveTimer)
       THEN SetRaises(t)
       ELSE /\ pc' = [pc EXCEPT ![t] = "sched_start"]
            /\ UNCHANGED <<ret, call, idx, log>>
    /\ UNCHANGED <<settings, writer, file, temp, lockOwner, callbacks, limit, saveTimer, cancelled,
                   calls, timersMade, crashed, lastWrite, touched, bursts, burstOpen,
                   saveStart>>

\* a _schedule_save that creates the timer and never starts it
SchedStartForgets(t) ==
    /\ ~crashed
    /\ pc[t] = "sched_start"
    /\ pc' = [pc EXCEPT ![t] = "notify"]
    /\ touched' = FALSE
    /\ bursts' = IF burstOpen THEN bursts ELSE bursts + 1
    /\ burstOpen' = TRUE
    /\ UNCHANGED <<ret, call, idx, log>>
    /\ UNCHANGED <<settings, writer, file, temp, lockOwner, callbacks, limit, saveTimer, cancelled,
                   calls, timersMade, crashed, lastWrite, saveStart>>

\* _schedule_save: self._save_timer.start()
SchedStart(t) ==
    /\ ~crashed
    /\ pc[t] = "sched_start"
    /\ IF Started(saveTimer)
       THEN /\ SetRaises(t)
            /\ UNCHANGED <<touched, bursts, burstOpen>>
       ELSE /\ pc' = [pc EXCEPT ![t] = "notify", ![saveTimer] = "started"]
            /\ touched' = FALSE
            /\ bursts' = IF burstOpen THEN bursts ELSE bursts + 1
            /\ burstOpen' = TRUE
            /\ UNCHANGED <<ret, call, idx, log>>
    /\ UNCHANGED <<settings, writer, file, temp, lockOwner, callbacks, limit, saveTimer, cancelled,
                   calls, timersMade, crashed, lastWrite, saveStart>>

\* callback(key, value) inside try/except Exception: what the call adds to the record of
\* invocations
Invoke(cb, key, value) == [cb |-> cb, key |-> key, value |-> value, raised |-> CallbackRaises(cb)]

\* the loop without the try/except: an exception of a callback leaves set
NotifyPropagates(t) ==
    /\ ~crashed
    /\ pc[t] = "notify"
    /\ idx[t] <= Len(callbacks)
    /\ IF CallbackRaises(callbacks[idx[t]])
       THEN SetRaises(t)
       ELSE /\ log' = [log EXCEPT ![t] =
                         Append(@, Invoke(callbacks[idx[t]], call[t].key, call[t].value))]
            /\ idx' = [idx EXCEPT ![t] = @ + 1]
            /\ UNCHANGED <<pc, call, ret>>
    /\ UNCHANGED <<settings, writer, file, temp, lockOwner, callbacks, limit, saveTimer, cancelled,
                   calls, timersMade, crashed, lastWrite, touched, bursts, burstOpen,
                   saveStart>>

\* a loop that runs inside the with block of set
NotifyUnderLock(t) ==
    /\ ~crashed
    /\ pc[t] = "notify"
    /\ idx[t] <= Len(callbacks)
    /\ lockOwner \in {NoOne, t}
    /\ lockOwner' = t
    /\ log' = [log EXCEPT ![t] = Append(@, Invoke(callbacks[idx[t]], call[t].key, call[t].value))]
    /\ idx' = [idx EXCEPT ![t] = @ + 1]
    /\ UNCHANGED <<settings, writer, file, temp, callbacks, limit, saveTimer, cancelled, pc, call,
                   ret, calls, timersMade, crashed, lastWrite, touched, bursts, burstOpen,
                   saveStart>>

\* set: one iteration of `for callback in self._callbacks`
Notify(t) ==
    /\ ~crashed
    /\ pc[t] = "notify"
    /\ idx[t] <= Len(callbacks)
    /\ log' = [log EXCEPT ![t] = Append(@, Invoke(callbacks[idx[t]], call[t].key, call[t].value))]
    /\ idx' = [idx EXCEPT ![t] = @ + 1]
    /\ UNCHANGED <<settings, writer, file, temp, lockOwner, callbacks, limit, saveTimer, cancelled, pc, call,
                   ret, calls, timersMade, crashed, lastWrite, touched, bursts, burstOpen,
                   saveStart>>

\* set: the iterator is exhausted; set returns None
NotifyDone(t) ==
    /\ ~crashed
    /\ pc[t] = "notify"
    /\ idx[t] > Len(callbacks)
    /\ pc' = [pc EXCEPT ![t] = IF call[t].next = NoNext THEN "idle" ELSE "set_second"]
    /\ ret' = [ret EXCEPT ![t] = Of(Returned("set", TRUE), call[t].key, call[t].value)]
    /\ call' = [call EXCEPT ![t] = [NoCall EXCEPT !.next = call[t].next]]
    /\ idx' = [idx EXCEPT ![t] = 0]
    /\ log' = [log EXCEPT ![t] = <<>>]
    /\ UNCHANGED <<settings, writer, file, temp, lockOwner, callbacks, limit, saveTimer, cancelled,
                   calls, timersMade, crashed, lastWrite, touched, bursts, burstOpen,
                   saveStart>>

\* SettingsManager.on_change
OnChange(t, cb) ==
    /\ CanCall(t)
    /\ Len(callbacks) < MaxCallbacks
    /\ callbacks' = Append(callbacks, cb)
    /\ ret' = [ret EXCEPT ![t] = Returned("on_change", TRUE)]
    /\ calls' = calls + 1
    /\ UNCHANGED <<settings, writer, file, temp, lockOwner, saveTimer, cancelled, pc, call, idx,
                   log, timersMade, crashed, lastWrite, touched, bursts, burstOpen, saveStart,
                   limit>>

\* a remove that drops the head of the list whatever it is
ListRemoveHead(s, x) == Tail(s)

\* list.remove(x): drops the first occurrence
RECURSIVE ListRemove(_, _)
ListRemove(s, x) ==
    IF s = <<>> THEN <<>>
    ELSE IF Head(s) = x THEN Tail(s)
    ELSE <<Head(s)>> \o ListRemove(Tail(s), x)

InList(s, x) == \E i \in 1..Len(s) : s[i] = x

\* SettingsManager.remove_callback: ValueError from list.remove is swallowed
RemoveCallback(t, cb) ==
    /\ CanCall(t)
    /\ callbacks' = IF InList(callbacks, cb) THEN ListRemove(callbacks, cb) ELSE callbacks
    /\ ret' = [ret EXCEPT ![t] =
                  Of(Returned("remove_callback", TRUE), cb, VBool(InList(callbacks, cb)))]
    /\ calls' = calls + 1
    /\ UNCHANGED <<settings, writer, file, temp, lockOwner, saveTimer, cancelled, pc, call, idx,
                   log, timersMade, crashed, lastWrite, touched, bursts, burstOpen, saveStart,
                   limit>>

(***************************************************************************)
(* Timer threads and save                                                  *)
(***************************************************************************)
\* a timer that has been started, has not expired and has not been cancelled
Pending(k) == pc[k] = "started" /\ k \notin cancelled

\* Timer.run: the wait is over and the finished event is not set: self.function() is called
TimerFire(k) ==
    /\ ~crashed
    /\ Pending(k)
    /\ pc' = [pc EXCEPT ![k] = "save_lock"]
    /\ burstOpen' = FALSE
    /\ UNCHANGED <<settings, writer, file, temp, lockOwner, callbacks, limit, saveTimer, cancelled, call, idx,
                   log, ret, calls, timersMade, crashed, lastWrite, touched, bursts, saveStart>>

\* SettingsManager.save called by a caller: with self._lock
SaveCall(t) ==
    /\ CanCall(t)
    /\ lockOwner = NoOne
    /\ lockOwner' = t
    /\ pc' = [pc EXCEPT ![t] = "save_open"]
    /\ ret' = [ret EXCEPT ![t] = NoRet]
    /\ calls' = calls + 1
    /\ saveStart' = [file |-> file, settings |-> settings]
    /\ UNCHANGED <<settings, writer, file, temp, callbacks, limit, saveTimer, cancelled, call, idx, log,
                   timersMade, crashed, lastWrite, touched, bursts, burstOpen>>

\* SettingsManager.save called by a timer: with self._lock
SaveLock(k) ==
    /\ ~crashed
    /\ pc[k] = "save_lock"
    /\ lockOwner = NoOne
    /\ lockOwner' = k
    /\ pc' = [pc EXCEPT ![k] = "save_open"]
    /\ saveStart' = [file |-> file, settings |-> settings]
    /\ UNCHANGED <<settings, writer, file, temp, callbacks, limit, saveTimer, cancelled, call, idx, log, ret,
                   calls, timersMade, crashed, lastWrite, touched, bursts, burstOpen>>

\* save: temp_file.open("w") creates or empties the temporary file, or raises OSError
SaveOpen(p, ok) ==
    /\ ~crashed
    /\ pc[p] = "save_open"
    /\ temp' = IF ok THEN Opened ELSE temp
    /\ pc' = [pc EXCEPT ![p] = IF ok THEN "save_write" ELSE "save_except"]
    /\ UNCHANGED <<settings, writer, file, lockOwner, callbacks, limit, saveTimer, cancelled, call, idx, log,
                   ret, calls, timersMade, crashed, lastWrite, touched, bursts, burstOpen,
                   saveStart>>

\* a save that writes the document straight to the final path
SaveWriteInPlace(p, ok) ==
    /\ ~crashed
    /\ pc[p] = "save_write"
    /\ file' = IF ok THEN Serialize(settings) ELSE Truncated(Serialize(settings))
    /\ pc' = [pc EXCEPT ![p] = IF ok THEN "save_replace" ELSE "save_except"]
    /\ UNCHANGED <<settings, writer, temp, lockOwner, callbacks, limit, saveTimer, cancelled, call, idx, log,
                   ret, calls, timersMade, crashed, lastWrite, touched, bursts, burstOpen,
                   saveStart>>

\* save: json.dump(self._settings.to_dict(), f, ...) and the close of f, or OSError part-way
SaveWrite(p, ok) ==
    /\ ~crashed
    /\ pc[p] = "save_write"
    /\ temp' = IF ok THEN Serialize(settings) ELSE Truncated(Serialize(settings))
    /\ pc' = [pc EXCEPT ![p] = IF ok THEN "save_replace" ELSE "save_except"]
    /\ UNCHANGED <<settings, writer, file, lockOwner, callbacks, limit, saveTimer, cancelled, call, idx, log,
                   ret, calls, timersMade, crashed, lastWrite, touched, bursts, burstOpen,
                   saveStart>>

\* the state of a thread that has left save()
AfterSave(p) == IF p \in Callers THEN "idle" ELSE "finished"

\* a save that copies the temporary file to the final path and leaves it there
SaveReplaceCopies(p, ok) ==
    /\ ~crashed
    /\ pc[p] = "save_replace"
    /\ IF ok
       THEN /\ file' = temp
            /\ temp' = temp
            /\ pc' = [pc EXCEPT ![p] = AfterSave(p)]
            /\ ret' = [ret EXCEPT ![p] = Returned("save", TRUE)]
            /\ lockOwner' = NoOne
            /\ saveStart' = NoSave
       ELSE /\ pc' = [pc EXCEPT ![p] = "save_except"]
            /\ UNCHANGED <<file, temp, ret, lockOwner, saveStart>>
    /\ UNCHANGED <<settings, writer, callbacks, limit, saveTimer, cancelled, call, idx, log,
                   calls, timersMade, crashed, lastWrite, touched, bursts, burstOpen>>

\* save: temp_file.replace(self._settings_file) renames atomically and save returns True,
\* or raises OSError
SaveReplace(p, ok) ==
    /\ ~crashed
    /\ pc[p] = "save_replace"
    /\ IF ok
       THEN /\ file' = temp
            /\ temp' = Absent
            /\ pc' = [pc EXCEPT ![p] = AfterSave(p)]
            /\ ret' = [ret EXCEPT ![p] = Returned("save", TRUE)]
            /\ lockOwner' = NoOne
            /\ saveStart' = NoSave
       ELSE /\ pc' = [pc EXCEPT ![p] = "save_except"]
            /\ UNCHANGED <<file, temp, ret, lockOwner, saveStart>>
    /\ UNCHANGED <<settings, writer, callbacks, limit, saveTimer, cancelled, call, idx, log,
                   calls, timersMade, crashed, lastWrite, touched, bursts, burstOpen>>

\* a failure path that leaves the temporary file behind
SaveExceptKeepsTemp(p, unlinked) ==
    /\ ~crashed
    /\ pc[p] = "save_except"
    /\ temp' = temp
    /\ pc' = [pc EXCEPT ![p] = AfterSave(p)]
    /\ ret' = [ret EXCEPT ![p] = [Returned("save", FALSE) EXCEPT !.cleaned = unlinked]]
    /\ lockOwner' = NoOne
    /\ saveStart' = NoSave
    /\ UNCHANGED <<settings, writer, file, callbacks, limit, saveTimer, cancelled, call, idx, log,
                   calls, timersMade, crashed, lastWrite, touched, bursts, burstOpen>>

\* a failure path that throws the record away
SaveExceptResets(p, unlinked) ==
    /\ ~crashed
    /\ pc[p] = "save_except"
    /\ temp' = IF unlinked THEN Absent ELSE temp
    /\ settings' = Defaults
    /\ pc' = [pc EXCEPT ![p] = AfterSave(p)]
    /\ ret' = [ret EXCEPT ![p] = [Returned("save", FALSE) EXCEPT !.cleaned = unlinked]]
    /\ lockOwner' = NoOne
    /\ saveStart' = NoSave
    /\ UNCHANGED <<writer, file, callbacks, limit, saveTimer, cancelled, call, idx, log,
                   calls, timersMade, crashed, lastWrite, touched, bursts, burstOpen>>

\* save, except Exception: temp_file.unlink(missing_ok=True), its OSError swallowed;
\* return False
SaveExcept(p, unlinked) ==
    /\ ~crashed
    /\ pc[p] = "save_except"
    /\ temp' = IF unlinked THEN Absent ELSE temp
    /\ pc' = [pc EXCEPT ![p] = AfterSave(p)]
    /\ ret' = [ret EXCEPT ![p] = [Returned("save", FALSE) EXCEPT !.cleaned = unlinked]]
    /\ lockOwner' = NoOne
    /\ saveStart' = NoSave
    /\ UNCHANGED <<settings, writer, file, callbacks, limit, saveTimer, cancelled, call, idx, log,
                   calls, timersMade, crashed, lastWrite, touched, bursts, burstOpen>>

\* the process is killed at any point: its memory and threads are gone, the files stay
Crash ==
    /\ ~crashed
    /\ crashed' = TRUE
    /\ settings' = Defaults
    /\ lockOwner' = NoOne
    /\ callbacks' = <<>>
    /\ saveTimer' = NoOne
    /\ cancelled' = {}
    /\ pc' = [p \in Procs |-> "dead"]
    /\ call' = [t \in Callers |-> NoCall]
    /\ idx' = [t \in Callers |-> 0]
    /\ log' = [t \in Callers |-> <<>>]
    /\ ret' = [p \in Procs |-> NoRet]
    /\ calls' = 0
    /\ timersMade' = 0
    /\ lastWrite' = NoWrite
    /\ touched' = FALSE
    /\ bursts' = 0
    /\ burstOpen' = FALSE
    /\ writer' = NoWriter
    /\ UNCHANGED <<file, temp, saveStart, limit>>

(***************************************************************************)
(* Specifications                                                          *)
(***************************************************************************)
CallerStep(t, setArgs, getKeys) ==
    \/ LoadCall(t)
    \/ Load(t)
    \/ \E key \in getKeys : Get(t, key, VNone)
    \/ \E a \in setArgs : SetLocked(t, a[1], a[2], a[3])
    \/ SchedCheck(t)
    \/ SchedCancel(t)
    \/ SchedNew(t)
    \/ SchedDaemon(t)
    \/ SchedStart(t)
    \/ Notify(t)
    \/ NotifyDone(t)
    \/ \E cb \in CallbackIds : OnChange(t, cb)
    \/ \E cb \in CallbackIds : RemoveCallback(t, cb)
    \/ SaveCall(t)

TimerStep(k) ==
    \/ TimerFire(k)
    \/ SaveLock(k)

SaveStep(p) ==
    \/ \E ok \in BOOLEAN : SaveOpen(p, ok)
    \/ \E ok \in BOOLEAN : SaveWrite(p, ok)
    \/ \E ok \in BOOLEAN : SaveReplace(p, ok)
    \/ \E unlinked \in BOOLEAN : SaveExcept(p, unlinked)

NextOf(callers, setArgs, getKeys) ==
    \/ \E t \in callers : CallerStep(t, setArgs, getKeys)
    \/ \E k \in Timers : TimerStep(k)
    \/ \E p \in Procs : SaveStep(p)
    \/ Crash

\* the accessors that set a pair of fields
PairStep(t) ==
    \/ \E a \in PosArgs : SetWindowPosition(t, a[1], a[2])
    \/ \E a \in FormattingArgs : SetSmartFormatting(t, a[1], a[2])
    \/ SetSecond(t)

\* one thread calls the store; the timers run beside it
Next == NextOf({1}, SetArgs, GetKeys)
Spec == Init /\ [][Next]_vars

\* two threads call the store
NextConc == NextOf(Callers, ConcSetArgs, {"output_mode"})
SpecConc == InitWith({Absent}) /\ limit = MaxCalls /\ [][NextConc]_vars

\* the store is constructed on a document and loads it again
NextFromDict == LoadCall(1) \/ Load(1)
SpecFromDict == InitWith(ParseFiles) /\ limit = MaxCalls /\ [][NextFromDict]_vars

\* the timer threads and every thread inside a with self._lock block keep running: an
\* expired timer calls save, save and load run to their return
Fairness ==
    /\ \A k \in Timers : WF_vars(TimerStep(k))
    /\ \A p \in Timers \cup {1} : WF_vars(SaveStep(p))
    /\ WF_vars(Load(1))

\* one calling thread, the threads scheduled fairly
NextLive == NextOf({1}, LiveSetArgs, {"language"})
SpecLive == InitWith({Absent}) /\ limit = MaxCalls /\ [][NextLive]_vars /\ Fairness

\* load called on a record that set has changed
NextLoad == NextOf({1}, LoadSetArgs, {"language"})
SpecLoad == InitWith(LoadFiles) /\ limit = MaxCalls /\ [][NextLoad]_vars

\* the module-level accessors
AccessorStep(t) ==
    \/ \E b \in BOOLEAN : SetSoundEnabled(t, b)
    \/ GetSoundEnabled(t)
    \/ \E b \in BOOLEAN : SetHistoryEnabled(t, b)
    \/ GetHistoryEnabled(t)
    \/ \E l \in LanguageArgs : SetLanguage(t, l)
    \/ GetLanguage(t)
    \/ \E m \in WindowModeArgs : SetWindowMode(t, m)

\* one thread calls the accessors and the store
NextAcc == NextOf({1}, AccSetArgs, {"window_mode"}) \/ AccessorStep(1)
SpecAcc == InitWith({Absent}) /\ limit = MaxCalls /\ [][NextAcc]_vars

\* one thread subscribes, unsubscribes and calls set
NextCb ==
    \/ \E cb \in ManyCallbackIds : OnChange(1, cb)
    \/ \E cb \in ManyCallbackIds : RemoveCallback(1, cb)
    \/ \E a \in CbSetArgs : SetLocked(1, a[1], a[2], a[3])
    \/ Notify(1)
    \/ NotifyDone(1)
SpecCb == InitWith({Absent}) /\ limit = MaxCbCalls /\ [][NextCb]_vars

\* thread 1 subscribes and calls set; thread 2 unsubscribes beside it
NextCbConc ==
    \/ \E cb \in ManyCallbackIds : OnChange(1, cb)
    \/ \E a \in CbSetArgs : SetLocked(1, a[1], a[2], a[3])
    \/ Notify(1)
    \/ NotifyDone(1)
    \/ \E cb \in ManyCallbackIds : RemoveCallback(2, cb)
SpecCbConc == InitWith({Absent}) /\ limit = MaxCbCalls /\ [][NextCbConc]_vars

\* one thread calls set and the accessors that set a pair of fields
NextPair == NextOf({1}, PairSetArgs, {"window_position_x"}) \/ PairStep(1)
SpecPair ==
    /\ InitWith({Absent, DictFile(DocValid, MAX_CONFIG_SIZE)})
    /\ limit = MaxCalls
    /\ [][NextPair]_vars

(***************************************************************************)
(* Properties                                                              *)
(***************************************************************************)
\* the sanitization rule of one field (section 3 of the specification): what from_dict
\* makes of {key: value}, an unconvertible value giving the default
Sanitized(key, value) ==
    IF FromDictRaises(key :> value) THEN Defaults[key] ELSE FromDict(key :> value)[key]

\* C1: set(field, value) followed by get(field), the record not changed in between,
\* returns the sanitized form of value.
C1_SetThenGetSanitized ==
    [][\A t \in Callers, key \in GetKeys :
         (Get(t, key, VNone) /\ lastWrite.op = "set" /\ lastWrite.key = key)
            => ret'[t].value = Sanitized(key, lastWrite.value)]_vars

\* the declared domain of every field
InDomain(rec) ==
    /\ rec.output_mode.t = "str" /\ rec.output_mode.s \in OutputModeValues
    /\ rec.smart_formatting_level.t = "str" /\ rec.smart_formatting_level.s \in LevelValues
    /\ rec.window_mode.t = "str" /\ rec.window_mode.s \in WindowModeValues
    /\ rec.push_to_talk_key.t = "str" /\ Len(rec.push_to_talk_key.s) <= PttLimit
    /\ rec.language.t = "str" /\ Len(rec.language.s) <= LanguageLimit
    /\ rec.smart_formatting_enabled.t = "bool"
    /\ rec.window_position_x.t = "int"
    /\ rec.window_position_y.t = "int"

\* C2: in every reachable state every field of the in-memory record holds a value of its
\* declared domain.
C2_RecordInDomain == InDomain(settings)

(***************************************************************************)
(* Debounce                                                                *)
(***************************************************************************)
\* a timer that has expired and called save
Fired(k) ==
    pc[k] \in {"save_lock", "save_open", "save_write", "save_replace", "save_except", "finished"}

\* C3: in a burst of persisting set calls made one after the other, each before the
\* pending timer expires, every call cancels the timer pending before it, so the only
\* timer that can expire is the one the last call armed; one timer expires, and so one
\* write is made, per burst; and when nothing changed the record after the last call,
\* the file its save renames into place is the serialization of that record.
C3_Debounce ==
    /\ \A k \in Timers : Pending(k) => k = saveTimer
    /\ Cardinality({k \in Timers : Fired(k)}) = bursts - (IF burstOpen THEN 1 ELSE 0)
    /\ \A k \in Timers :
          (pc[k] = "finished" /\ ret[k].ok /\ k = saveTimer /\ ~touched)
             => file = Serialize(settings)

\* a burst of two calls: the first timer was cancelled while pending, the second wrote
C3_Witness ==
    /\ bursts = 1
    /\ 101 \in cancelled /\ pc[101] = "started"
    /\ pc[102] = "finished" /\ ret[102].ok /\ saveTimer = 102 /\ ~touched
    /\ file = Serialize(settings)

\* C4: at most one debounce timer is outstanding at any time, whatever the interleaving
\* of concurrent set(..., save=True) calls.
C4_AtMostOneTimer == Cardinality({k \in Timers : Pending(k)}) <= 1

(***************************************************************************)
(* save                                                                    *)
(***************************************************************************)
InSave(p) == pc[p] \in {"save_open", "save_write", "save_replace", "save_except"}

\* C5: the file at the final path is always a complete file: while a save runs (and after
\* a crash in the middle of it) it is the file the save found, and it only ever changes,
\* in one step, to the complete document of the running save.
C5_AtomicReplace ==
    /\ [](file.complete /\ ((\E p \in Procs : InSave(p)) => file = saveStart.file))
    /\ [][file' # file =>
            /\ file' = Serialize(saveStart.settings)
            /\ \E p \in Procs : pc[p] = "save_replace"]_vars

\* the process was killed while the temporary file was half-written; the document of
\* the last successful save is still at the final path
C5_Witness ==
    /\ crashed
    /\ ~temp.complete /\ temp.size > 0
    /\ file.kind = "dict" /\ file.complete /\ file = saveStart.file
    /\ file # Serialize(saveStart.settings)

\* C6: a save that fails returns False without raising; the temporary file is gone unless
\* its removal itself failed; the file at the final path and the in-memory record are
\* what they were when the save began.
C6_SaveFailure ==
    [][\A p \in Procs :
         (InSave(p) /\ ~InSave(p)' /\ ~crashed' /\ ~ret'[p].ok)
            => /\ ret'[p].op = "save" /\ ~ret'[p].raised
               /\ ret'[p].cleaned => temp' = Absent
               /\ file' = saveStart.file
               /\ settings' = saveStart.settings
               /\ lockOwner' = NoOne]_vars

\* a save failed after a document had been saved: that document is still there, the
\* temporary file is not, and the record differs from the document
C6_Witness ==
    \E p \in Procs :
        /\ ret[p].op = "save" /\ ~ret[p].ok /\ ret[p].cleaned
        /\ temp = Absent
        /\ file.kind = "dict" /\ file # Serialize(settings)
        /\ settings # Defaults

(***************************************************************************)
(* load                                                                    *)
(***************************************************************************)
\* C7: a load that fails returns False without raising and leaves every field of the
\* record as it was; a store constructed with no file present holds language "fr".
C7_LoadFailureKeepsRecord ==
    /\ [][\A t \in Callers :
            (Load(t) /\ ~ret'[t].ok) => (settings' = settings /\ ~ret'[t].raised)]_vars
    /\ []((calls = 0 /\ ~crashed /\ file = Absent)
             => GetAttr(settings, "language", VNone) = VStr(S_fr))

\* a load failed on a record that a set had changed, and the change is still there
C7_Witness ==
    /\ ret[1].op = "load" /\ ~ret[1].ok /\ ~ret[1].raised
    /\ settings # Defaults
    /\ lastWrite.op = "set"

\* a file load must reject: over the size bound, not JSON, or not a mapping
Rejectable(f) == f.size > MAX_CONFIG_SIZE \/ f.kind \in {"garbage", "other"}

\* C8: load rejects, without raising, a file of more than 10240 bytes, a file that is not
\* JSON and a file whose top level is not a mapping, and a store constructed on such a
\* file holds the defaults; a mapping of at most 10240 bytes whose fields convert is
\* accepted.
C8_LoadRejects ==
    /\ [][\A t \in Callers :
            Load(t) =>
              /\ Rejectable(file) => (~ret'[t].ok /\ ~ret'[t].raised /\ settings' = settings)
              /\ (file.kind = "dict" /\ file.size <= MAX_CONFIG_SIZE
                     /\ ~FromDictRaises(file.data)) => ret'[t].ok]_vars
    /\ []((calls = 0 /\ ~crashed /\ Rejectable(file)) => settings = Defaults)

\* load has just rejected a document of 10241 bytes that is otherwise valid
C8_Witness ==
    /\ ret[1].op = "load" /\ ~ret[1].ok
    /\ file = DictFile(DocValid, MAX_CONFIG_SIZE + 1)
    /\ ~FromDictRaises(file.data)

\* C9: from_dict never fails, so load never rejects a mapping within the size bound: the
\* fields it can use are taken from the document.
C9_ParseNeverFails ==
    [][\A t \in Callers :
         (Load(t) /\ file.kind = "dict" /\ file.size <= MAX_CONFIG_SIZE)
            => /\ ret'[t].ok
               /\ "language" \in DOMAIN file.data
                     => settings'.language = Sanitized("language", file.data.language)]_vars

(***************************************************************************)
(* Notification                                                            *)
(***************************************************************************)
\* the invocations of the first n subscribers of cbs, in order
Expected(cbs, n, key, value) == [i \in 1..n |-> Invoke(cbs[i], key, value)]

\* C10: a set of a known field, persisting or not, calls every callback registered when
\* it began exactly once with (field, value), in subscription order; a callback that
\* raises stops neither the callbacks after it nor set, which returns normally, and the
\* stored value stays the one set.
C10_NotifyAll ==
    /\ [](\A t \in Callers :
            pc[t] = "notify" =>
              /\ idx[t] <= Len(call[t].cbs) + 1
              /\ log[t] = Expected(call[t].cbs, idx[t] - 1, call[t].key, call[t].value)
              /\ settings[call[t].key] = call[t].value)
    /\ [][\A t \in Callers :
            (pc[t] = "notify" /\ pc'[t] # "notify" /\ ~crashed')
               => /\ ret'[t] = Of(Returned("set", TRUE), call[t].key, call[t].value)
                  /\ Len(log[t]) = Len(call[t].cbs)]_vars

\* two callbacks are registered, the first raises, and both have been called
C10_Witness ==
    /\ pc[1] = "notify"
    /\ Len(call[1].cbs) = 2 /\ idx[1] = 3
    /\ CallbackRaises(call[1].cbs[1]) /\ ~CallbackRaises(call[1].cbs[2])
    /\ log[1][1].raised /\ ~log[1][2].raised

(***************************************************************************)
(* Names outside the schema                                                *)
(***************************************************************************)
\* C11: set(name, value) with a name that is not one of the eight fields is a no-op: the
\* record, the timer handle and every timer are left as they were, no callback is
\* invoked (the call returns within the locked block), and nothing is raised.
C11_UnknownFieldNoop ==
    [][\A t \in Callers, a \in SetArgs :
         (SetLocked(t, a[1], a[2], a[3]) /\ a[1] \notin FieldNames)
            => /\ settings' = settings
               /\ saveTimer' = saveTimer /\ cancelled' = cancelled /\ timersMade' = timersMade
               /\ pc' = pc /\ log' = log
               /\ ret'[t].op = "set" /\ ret'[t].ok /\ ~ret'[t].raised]_vars

(***************************************************************************)
(* Ordering                                                                *)
(***************************************************************************)
\* C12: whatever the other threads do, a get(field) that a thread calls right after its
\* set(field, v) returned gives v.
C12_ReadYourWrites ==
    [][\A t \in Callers, key \in FieldNames :
         (Get(t, key, VNone) /\ ret[t].op = "set" /\ ~ret[t].raised /\ ret[t].key = key)
            => ret'[t].value = ret[t].value]_vars

\* C12 as amended: a get(field) that a thread calls right after its set(field, v)
\* returned gives v, provided no other thread's set of that field and no successful load
\* ran between the two calls.
C12_ReadYourWritesUnlessOverwritten ==
    [][\A t \in Callers, key \in FieldNames :
         (Get(t, key, VNone) /\ ret[t].op = "set" /\ ~ret[t].raised /\ ret[t].key = key
             /\ writer[key] = t)
            => ret'[t].value = ret[t].value]_vars

\* thread 1 set output_mode, thread 2 set language, and thread 1 got its value back
C12_Witness ==
    /\ calls = 3
    /\ writer["output_mode"] = 1 /\ writer["language"] = 2
    /\ ret[1].op = "get" /\ ret[1].key = "output_mode" /\ ret[1].value = VStr(S_bogus)
    /\ settings["output_mode"] = VStr(S_bogus)

(***************************************************************************)
(* Algebraic laws                                                          *)
(***************************************************************************)
\* C13: every record that set calls produce survives the round trip:
\* from_dict(record.to_dict()) returns, and returns a record equal to it on all fields.
C13_RoundTrip ==
    lastWrite.op = "set"
       => /\ ~FromDictRaises(ToDict(settings))
          /\ FromDict(ToDict(settings)) = settings

\* C14: save is idempotent.  Every save that returns True leaves at the final path the
\* document of the record and no temporary file; until a set or a load changes the
\* record the file stays that document; so a second save, which finds the file its
\* predecessor wrote, leaves a file with the same content and no temporary file.
C14_SaveIdempotent ==
    [][/\ \A p \in Procs :
            (pc[p] = "save_replace" /\ pc'[p] = AfterSave(p) /\ ret'[p].ok)
               => /\ file' = Serialize(settings') /\ temp' = Absent
                  /\ saveStart.file = Serialize(saveStart.settings) => file' = saveStart.file
       /\ (file = Serialize(settings) /\ settings' = settings /\ ~crashed')
             => file' = Serialize(settings')]_vars

\* after a set, the timer's save and the caller's save both returned True, with no set or
\* load between them
C14_Witness ==
    /\ calls = 2 /\ lastWrite.op = "set"
    /\ ret[1].op = "save" /\ ret[1].ok
    /\ pc[101] = "finished" /\ ret[101].ok
    /\ file = Serialize(settings) /\ temp = Absent

(***************************************************************************)
(* Concurrent set calls                                                    *)
(***************************************************************************)
\* the set call a thread has in progress or has just finished
HasSet(t) == call[t].op = "set" \/ (ret[t].op = "set" /\ ret[t].key \in FieldNames)
SetKey(t) == IF call[t].op = "set" THEN call[t].key ELSE ret[t].key
SetValue(t) == IF call[t].op = "set" THEN call[t].value ELSE ret[t].value

\* C15: a set changes exactly one field in one step, whatever the other thread does: no
\* step other than a load changes two fields, and when two threads have each made one
\* set call on a fresh record, two different fields both hold their new values, the same
\* field holds one of the two values, and every other field is untouched.
C15_SetAtomic ==
    /\ [][(~crashed' /\ \A t \in Callers : ~Load(t))
             => Cardinality({k \in FieldNames : settings'[k] # settings[k]}) <= 1]_vars
    /\ []((calls = 2 /\ HasSet(1) /\ HasSet(2))
            => \A k \in FieldNames :
                 IF k = SetKey(1) /\ k = SetKey(2) THEN settings[k] \in {SetValue(1), SetValue(2)}
                 ELSE IF k = SetKey(1) THEN settings[k] = SetValue(1)
                 ELSE IF k = SetKey(2) THEN settings[k] = SetValue(2)
                 ELSE settings[k] = Defaults[k])

\* two set calls of different fields are in progress at once, and both fields are set
C15_Witness ==
    /\ calls = 2
    /\ pc[1] = "sched_start" /\ call[1].key = "output_mode"
    /\ pc[2] = "notify" /\ call[2].key = "language"
    /\ settings["output_mode"] = call[1].value /\ settings["language"] = call[2].value

(***************************************************************************)
(* get                                                                     *)
(***************************************************************************)
\* C16: get(name, default) returns normally the current value of a schema field, or
\* default for a name outside the schema; it touches neither the settings file nor the
\* temporary file and leaves the record, the timer handle and the callback list as they
\* were.
C16_GetPure ==
    [][\A t \in Callers, key \in GetKeys :
         Get(t, key, VNone)
            => /\ ret'[t].ok /\ ~ret'[t].raised
               /\ ret'[t].value = (IF key \in FieldNames THEN settings[key] ELSE VNone)
               /\ file' = file /\ temp' = temp
               /\ settings' = settings /\ saveTimer' = saveTimer /\ cancelled' = cancelled
               /\ callbacks' = callbacks]_vars

(***************************************************************************)
(* set(..., save=False) and the accessors that set a pair                  *)
(***************************************************************************)
\* the steps of a set call that does not persist, and the notification of any set
NonPersistingStep(t) ==
    \/ \E a \in PairSetArgs : ~a[3] /\ SetLocked(t, a[1], a[2], a[3])
    \/ \E a \in PosArgs : SetWindowPosition(t, a[1], a[2])
    \/ \E a \in FormattingArgs : SetSmartFormatting(t, a[1], a[2])
    \/ Notify(t)
    \/ NotifyDone(t)

\* the last save wrote the pair of the accessor called last
PairWritten(d) ==
    \/ /\ lastWrite.key = "window_position_y"
       /\ <<d["window_position_x"], d["window_position_y"]>> \in PosArgs
    \/ /\ lastWrite.key = "smart_formatting_level"
       /\ <<d["smart_formatting_enabled"], d["smart_formatting_level"]>> \in FormattingArgs

\* C17: set(field, value, save=False) stores the value and goes straight to the
\* notification of the callbacks registered: no step of it creates, starts or cancels a
\* timer or changes the timer handle.  An accessor that sets a pair of fields, the first
\* with save=False and the second with save=True, therefore creates exactly one timer,
\* and when that timer's save succeeds with no later change of the record, the file
\* holds both values of the pair.
C17_PairOneWrite ==
    /\ [](\A t \in Callers :
            (call[t].op = "set" /\ ~call[t].save)
               => /\ pc[t] = "notify" /\ call[t].timer = NoOne
                  /\ settings[call[t].key] = call[t].value)
    /\ [][\A t \in Callers :
            /\ NonPersistingStep(t)
                  => /\ saveTimer' = saveTimer /\ cancelled' = cancelled
                     /\ timersMade' = timersMade
                     /\ \A k \in Timers : pc'[k] = pc[k]
            /\ (NonPersistingStep(t) /\ call'[t].op = "set" /\ call[t].op # "set")
                  => (~call'[t].save /\ call'[t].cbs = callbacks)
            /\ SetSecond(t)
                  => /\ timersMade' = timersMade + 1
                     /\ call'[t].save /\ call'[t].timer = 100 + timersMade'
                     /\ settings'[ret[t].key] = ret[t].value]_vars
    /\ [](\A k \in Timers :
            (pc[k] = "finished" /\ ret[k].ok /\ k = saveTimer /\ ~touched
                /\ lastWrite.key \in {"window_position_y", "smart_formatting_level"})
               => PairWritten(file.data))

\* set_window_position(10, 20) was the only call: one timer was created, it has saved,
\* and the file holds x = 10 and y = 20
C17_Witness ==
    /\ calls = 1 /\ timersMade = 1
    /\ ret[1].op = "set" /\ ret[1].key = "window_position_y" /\ pc[1] = "idle"
    /\ pc[101] = "finished" /\ ret[101].ok
    /\ file.data["window_position_x"] = VInt(10) /\ file.data["window_position_y"] = VInt(20)

(***************************************************************************)
(* The sanitization table of from_dict                                     *)
(***************************************************************************)
\* s is the first n characters of full, or all of full when it is shorter
FirstChars(s, full, n) ==
    /\ Len(s) = (IF Len(full) < n THEN Len(full) ELSE n)
    /\ \A i \in 1..Len(s) : s[i] = full[i]

\* the row of an enumerated field: default when absent or outside the enumeration, the
\* value itself when inside
EnumRow(d, rec, key, values) ==
    IF key \in DOMAIN d /\ d[key].t = "str" /\ d[key].s \in values
    THEN rec[key] = d[key]
    ELSE rec[key] = Defaults[key]

\* the row of a truncated string field
TextRow(d, rec, key, n) ==
    IF key \in DOMAIN d
    THEN rec[key].t = "str" /\ FirstChars(rec[key].s, PyStr(d[key]), n)
    ELSE rec[key] = Defaults[key]

\* C18: the record from_dict makes of a document follows the table field by field: an
\* absent field has its default (f2, type, fr, true, basic, floating, -1, -1),
\* push_to_talk_key is cut to 50 characters and language to 10, and output_mode,
\* smart_formatting_level and window_mode keep a value of their enumeration and take
\* type, basic and floating for any other.
C18_SanitizationTable ==
    (file.kind = "dict" /\ ~FromDictRaises(file.data) /\ file.size <= MAX_CONFIG_SIZE)
       => /\ TextRow(file.data, settings, "push_to_talk_key", 50)
          /\ TextRow(file.data, settings, "language", 10)
          /\ EnumRow(file.data, settings, "output_mode", {S_type, S_clipboard})
          /\ EnumRow(file.data, settings, "smart_formatting_level", {S_none, S_basic, S_smart})
          /\ EnumRow(file.data, settings, "window_mode", {S_floating, S_normal})
          /\ \A k \in FieldNames \ DOMAIN file.data : settings[k] = Defaults[k]
          /\ Defaults["push_to_talk_key"] = VStr(S_f2) /\ Defaults["output_mode"] = VStr(S_type)
          /\ Defaults["language"] = VStr(S_fr)
          /\ Defaults["smart_formatting_enabled"] = VBool(TRUE)
          /\ Defaults["smart_formatting_level"] = VStr(S_basic)
          /\ Defaults["window_mode"] = VStr(S_floating)
          /\ Defaults["window_position_x"] = VInt(0 - 1)
          /\ Defaults["window_position_y"] = VInt(0 - 1)

\* load has parsed a document with a key of 100 characters, an output mode outside the
\* enumeration, the level "smart" and no language
C18_Witness ==
    /\ ret[1].op = "load" /\ ret[1].ok
    /\ file.data = DocOf([push_to_talk_key |-> VStr(LongKey), output_mode |-> VStr(S_INVALID),
                          language |-> Missing, smart_formatting_level |-> VStr(S_smart),
                          window_mode |-> Missing])
    /\ settings["push_to_talk_key"] = VStr(Rep("a", 50))
    /\ settings["output_mode"] = VStr(S_type)
    /\ settings["smart_formatting_level"] = VStr(S_smart)
    /\ settings["language"] = VStr(S_fr)

(***************************************************************************)
(* Unknown keys of a document                                              *)
(***************************************************************************)
\* the part of a document under the eight field names
Known(d) == [k \in DOMAIN d \cap FieldNames |-> d[k]]

\* a mapping within the size bound whose schema fields convert
Loadable(f) ==
    f.kind = "dict" /\ f.size <= MAX_CONFIG_SIZE /\ ~FromDictRaises(Known(f.data))

\* C19: load accepts a document whatever keys it has beside the schema fields and builds
\* the record from the schema fields alone, at construction and at every later call;
\* every document save puts at the final path has exactly the eight field names as keys,
\* so none of the unknown keys of a loaded document is written back.
C19_UnknownKeysDropped ==
    /\ [][\A t \in Callers :
            (Load(t) /\ Loadable(file))
               => (ret'[t].ok /\ settings' = FromDict(Known(file.data)))]_vars
    /\ []((calls = 0 /\ ~crashed /\ Loadable(file)) => settings = FromDict(Known(file.data)))
    /\ [][\A p \in Procs :
            (pc[p] = "save_replace" /\ pc'[p] = AfterSave(p) /\ ret'[p].ok)
               => (file'.kind = "dict" /\ DOMAIN file'.data = FieldNames)]_vars

\* the store was built on the document with unknown_key, load() was called, and save()
\* has written the eight fields
C19_Witness ==
    /\ calls = 2 /\ lastWrite.op = "load"
    /\ ret[1].op = "save" /\ ret[1].ok
    /\ settings["push_to_talk_key"] = VStr(Rep("a", 50))
    /\ file = Serialize(settings)
    /\ "unknown_key" \notin DOMAIN file.data /\ "unknown_key" \in DOMAIN DocMessy

(***************************************************************************)
(* remove_callback                                                         *)
(***************************************************************************)
\* the number of times cb is registered
Registered(s, cb) == Cardinality({i \in 1..Len(s) : s[i] = cb})

\* C20: remove_callback never raises; for a callback that is not registered it leaves
\* the list as it was; for a callback registered once it leaves the other callbacks in
\* their order and the callback out of the list; and every callback a set invokes is
\* registered when it is invoked, so a removed callback is not invoked again.
C20_RemoveCallback ==
    [][\A t \in Callers :
         /\ \A cb \in ManyCallbackIds :
               RemoveCallback(t, cb)
                  => /\ ret'[t].ok /\ ~ret'[t].raised
                     /\ Registered(callbacks, cb) = 0 => callbacks' = callbacks
                     /\ Registered(callbacks, cb) = 1
                           => /\ Registered(callbacks', cb) = 0
                              /\ LET Other(x) == x # cb
                                 IN callbacks' = SelectSeq(callbacks, Other)
         /\ Notify(t) => Registered(callbacks, log'[t][Len(log'[t])].cb) > 0]_vars

\* cbOk has just been removed from between two others
C20_Witness ==
    /\ ret[1].op = "remove_callback" /\ ret[1].key = "cbOk" /\ ret[1].value = VBool(TRUE)
    /\ callbacks = <<"cbRaises", "cbLate">>

(***************************************************************************)
(* Module-level accessors                                                  *)
(***************************************************************************)
\* C21: the accessors are setter/getter pairs: get_sound_enabled() called after
\* set_sound_enabled(b) returns b, get_history_enabled() called after
\* set_history_enabled(b) returns b, for b true and false, as get_language() after
\* set_language(l) returns l.
C21_AccessorPairs ==
    [][\A t \in Callers :
         /\ (GetSoundEnabled(t) /\ ret[t].op = "set" /\ ret[t].key = "sound_enabled")
               => ret'[t].value = ret[t].value
         /\ (GetHistoryEnabled(t) /\ ret[t].op = "set" /\ ret[t].key = "history_enabled")
               => ret'[t].value = ret[t].value
         /\ (GetLanguage(t) /\ ret[t].op = "set" /\ ret[t].key = "language")
               => ret'[t].value = ret[t].value]_vars

\* C28: set_window_mode(mode) with a mode outside {floating, normal} returns normally and
\* changes nothing: the record, the timers and the timer handle stay as they were and no
\* set, hence no notification, is begun; with a valid mode it stores the mode and goes on
\* to schedule a save, whose timer is started before the callbacks are notified.
C28_SetWindowMode ==
    /\ [][\A t \in Callers, m \in WindowModeArgs :
            SetWindowMode(t, m) =>
               IF m.s \in {S_floating, S_normal}
               THEN /\ settings' = [settings EXCEPT !["window_mode"] = m]
                    /\ pc'[t] = "sched_check" /\ call'[t].save
                    /\ timersMade' = timersMade + 1
               ELSE /\ settings' = settings
                    /\ pc' = pc /\ call' = call /\ log' = log
                    /\ saveTimer' = saveTimer /\ cancelled' = cancelled
                    /\ timersMade' = timersMade
                    /\ ret'[t].ok /\ ~ret'[t].raised]_vars
    /\ [](\A t \in Callers :
            (pc[t] = "notify" /\ call[t].key = "window_mode")
               => (saveTimer = call[t].timer /\ Started(call[t].timer)))

\* set_window_mode("normal") set the mode, and set_window_mode("INVALID") after it
\* left it there
C28_Witness ==
    /\ ret[1].op = "set_window_mode" /\ ret[1].value = VStr(S_INVALID)
    /\ settings["window_mode"] = VStr(S_normal)
    /\ timersMade = 1

(***************************************************************************)
(* The lock                                                                *)
(***************************************************************************)
\* the steps of _schedule_save that read, cancel or replace self._save_timer
TouchesTimerHandle(t) == SchedCheck(t) \/ SchedCancel(t) \/ SchedNew(t)

\* C22: a thread reads, cancels or replaces the timer handle only while it holds the
\* lock of the store.
C22_HandleUnderLock ==
    [][\A t \in Callers : TouchesTimerHandle(t) => lockOwner = t]_vars

\* C23: while a set is in its notification loop the setting thread does not hold the
\* lock, so the other thread is free to take it.
C23_NotifyOutsideLock ==
    \A t \in Callers : pc[t] = "notify" => lockOwner # t

\* thread 1 is about to invoke a callback with the value it set, and thread 2 has
\* meanwhile completed a set of the same field to another value: the callback sees a
\* record that has moved on
C23_Witness ==
    /\ pc[1] = "notify" /\ idx[1] <= Len(callbacks)
    /\ call[1].key = "output_mode"
    /\ settings["output_mode"] # call[1].value
    /\ writer["output_mode"] = 2
    /\ pc[2] = "idle" /\ ret[2].op = "set" /\ ret[2].key = "output_mode"

\* C24: load does not hold the lock while it tests, measures, opens and parses the
\* settings file.
C24_LoadReadsUnlocked ==
    \A t \in Callers : pc[t] = "load_read" => lockOwner # t

\* C29: the record does not change while a save runs, and the document a save renames
\* onto the final path is the serialization of the record as it is at that instant.
C29_Snapshot ==
    /\ [](\A p \in Procs : InSave(p) => settings = saveStart.settings)
    /\ [][file' # file => (file' = Serialize(settings) /\ settings' = settings)]_vars

\* both threads have set a field, a set of thread 2 is still in progress, and a timer
\* has saved the record with the two values
C29_Witness ==
    /\ writer["output_mode"] = 1 /\ writer["language"] = 2
    /\ \E k \in Timers : pc[k] = "finished" /\ ret[k].op = "save" /\ ret[k].ok
    /\ file = Serialize(settings)
    /\ pc[2] = "notify"

(***************************************************************************)
(* load on a changed record                                                *)
(***************************************************************************)
\* a value that from_dict stores as it is
Valid(key, value) == Sanitized(key, value) = value

\* C27: after a load that returns True every field the document holds with a valid value
\* has that value and every field the document leaves out has its default, whatever the
\* record held before the call.
C27_LoadReplaces ==
    [][\A t \in Callers :
         (Load(t) /\ ret'[t].ok) =>
            \A key \in FieldNames :
               IF key \in DOMAIN file.data
               THEN Valid(key, file.data[key]) => settings'[key] = file.data[key]
               ELSE settings'[key] = Defaults[key]]_vars

\* set had stored output_mode "clipboard" and language "abc"; the document holds
\* language "en" and no output_mode, and after load() the record holds "en" and the
\* default "type"
C27_Witness ==
    /\ ~crashed /\ timersMade = 1 /\ calls = 3
    /\ ret[1].op = "load" /\ ret[1].ok /\ lastWrite.op = "load"
    /\ file = DictFile(DocPartial, 50)
    /\ settings["output_mode"] = Defaults["output_mode"]
    /\ settings["language"] = VStr(S_en)

(***************************************************************************)
(* A failed save and the next change                                       *)
(***************************************************************************)
\* the save run by timer k has failed
SaveFailed(k) == pc[k] = "finished" /\ ret[k].op = "save" /\ ~ret[k].ok

\* C26: the failure of a save run by a timer leaves the record as it is, frees the lock
\* and arms no new timer, so that no save is pending while the handle still names the
\* failed timer; a persisting set after it starts a new timer, and the save of a timer
\* that succeeds after a failure puts the serialization of the whole record at the
\* final path.
C26_FailedSaveRetried ==
    /\ [][\A k \in Timers :
            (pc[k] = "save_except" /\ pc'[k] = "finished") =>
               /\ settings' = settings
               /\ lockOwner' = NoOne
               /\ ~crashed'
               /\ \A j \in Timers : Pending(j)' => Pending(j)]_vars
    /\ [](\A k \in Timers :
            (SaveFailed(k) /\ saveTimer = k) => \A j \in Timers : ~Pending(j))
    /\ [][\A t \in Callers :
            (SchedStart(t) /\ \E k \in Timers : SaveFailed(k)) => Pending(call[t].timer)']_vars
    /\ [][\A k \in Timers :
            (pc[k] = "save_replace" /\ pc'[k] = "finished" /\ \E j \in Timers : SaveFailed(j))
               => (ret'[k].ok /\ file' = Serialize(settings) /\ settings' = settings)]_vars

\* the save of the first timer failed after set had stored output_mode "clipboard"; the
\* next set stored the push-to-talk key, and the save of its timer has written both
C26_Witness ==
    /\ SaveFailed(101)
    /\ pc[102] = "finished" /\ ret[102].op = "save" /\ ret[102].ok
    /\ lastWrite = [op |-> "set", key |-> "push_to_talk_key", value |-> VStr(LongKey)]
    /\ settings["output_mode"] = VStr(S_clipboard)
    /\ file = Serialize(settings)
    /\ file.data["output_mode"] = VStr(S_clipboard)
    /\ file.data["push_to_talk_key"] = VStr(LongKey)

(***************************************************************************)
(* The deferred save                                                       *)
(***************************************************************************)
\* the steps of a call of set by thread t
SetStep(t) ==
    \/ \E a \in LiveSetArgs : SetLocked(t, a[1], a[2], a[3])
    \/ SchedCheck(t) \/ SchedCancel(t) \/ SchedNew(t) \/ SchedDaemon(t) \/ SchedStart(t)
    \/ Notify(t) \/ NotifyDone(t)

\* thread t has gone through _schedule_save with timer k
Scheduled(t, k) == pc[t] = "notify" /\ call[t].save /\ call[t].timer = k

\* C25: once a persisting set has scheduled its save, the save of its timer is
\* eventually run to its return unless a later persisting set cancels the timer or the
\* process is killed; when the save of a timer succeeds the file at the final path is
\* the serialization of the record; no step of set writes a file.
C25_DeferredSave ==
    /\ \A k \in Timers :
          (\E t \in Callers : Scheduled(t, k))
             ~> (pc[k] = "finished" \/ k \in cancelled \/ crashed)
    /\ [][\A k \in Timers :
            (pc[k] = "save_replace" /\ pc'[k] = "finished" /\ ret'[k].ok)
               => file' = Serialize(settings')]_vars
    /\ [][\A t \in Callers : SetStep(t) => (file' = file /\ temp' = temp)]_vars

\* one call, set("output_mode", "clipboard"), has returned, and the save of its timer
\* has put the record at the final path
C25_Witness ==
    /\ calls = 1 /\ pc[1] = "idle" /\ ret[1].op = "set"
    /\ pc[101] = "finished" /\ ret[101].op = "save" /\ ret[101].ok
    /\ 101 \notin cancelled
    /\ settings["output_mode"] = VStr(S_clipboard)
    /\ file = Serialize(settings)

(***************************************************************************)
(* Subscriptions changed during a notification                             *)
(***************************************************************************)
\* the number of invocations of cb in a record of invocations
Invocations(l, cb) == Cardinality({i \in 1..Len(l) : l[i].cb = cb})

\* C30: when the notification loop of a set ends, every callback that was registered
\* once when the set began and is still registered (thread 2 only removes, so it was
\* never removed in between) has been invoked exactly once by that set.
C30_FanOutRobust ==
    [][\A t \in Callers :
         NotifyDone(t) =>
            \A cb \in ManyCallbackIds :
               (Registered(call[t].cbs, cb) = 1 /\ Registered(callbacks, cb) = 1)
                  => Invocations(log[t], cb) = 1]_vars

====
